---- MODULE Spec2Model ----
(***************************************************************************)
(* A model of src/modules/fretboard.js: getFrets, filterCapo,              *)
(* shouldDisplayFret, isInPosition and getInterval.                        *)
(*                                                                         *)
(* getFrets is a synchronous function; the model runs it as a state        *)
(* machine whose steps are the statements of its body: the offsets and the *)
(* sort, the creation of one string's frets, one call of applyInterval,    *)
(* the extension of a string's row, shiftSequencesDown and filterCapo.     *)
(* JavaScript arrays are 0-based: `frets` is a function over               *)
(* 0..NB_FRETS-1, and the `index` of a tag is 0-based as in the code.      *)
(* A JavaScript exception ends the call in pc = "threw".                   *)
(***************************************************************************)
EXTENDS Integers, Sequences, FiniteSets, TLC

VARIABLES
    sequences,        \* argument of getFrets
    tuningNotes,      \* argument of getFrets
    capo,             \* argument of getFrets
    flipped,          \* argument of getFrets
    pc,               \* position in the body of getFrets (or of a pure call)
    positionOffsets,  \* const positionOffsets (line 18)
    sortedSequences,  \* const sortedSequences (line 23)
    stringNumber,     \* flatMap's index (line 31)
    frets,            \* const frets of the current string (line 33)
    index,            \* forEach's index over sortedSequences (line 42)
    intervalNo,       \* 0: applyInterval(0) of line 68; k: the k-th interval of line 69
    allFrets,         \* let allFrets (lines 31, 76)
    result,           \* the returned grid (line 80)
    call              \* arguments and result of a call of an exported/pure function

vars == <<sequences, tuningNotes, capo, flipped, pc, positionOffsets,
          sortedSequences, stringNumber, frets, index, intervalNo, allFrets,
          result, call>>

----------------------------------------------------------------------------
(* Imported values (modules/constants, modules/music, modules/intervals,   *)
(* modules/shift12 are not part of the source tree at hand).               *)

NB_FRETS == 24

MAX_NB_FRETS == 30

notes == <<"C", "C#", "D", "D#", "E", "F", "F#", "G", "G#", "A", "A#", "B">>

\* The value JavaScript yields for a missing array element or property.
Undefined == "undefined"

\* An optional property: {} when it is undefined, {v} when it holds v.
Missing == {}
Some(v) == {v}
Get(o) == CHOOSE v \in o : TRUE

\* models[name]: a positions table is optional; the intervals are what
\* intervalsForSequence yields for a sequence of that model.
models ==
    [major |-> [hasPositions |-> TRUE,
                positions    |-> << <<0, 3>>, <<10, 2>> >>,
                intervals    |-> <<4, 7>>],
     triad |-> [hasPositions |-> FALSE,
                positions    |-> << >>,
                intervals    |-> <<0, 4, 7>>]]

intervalsForSequence(seq) == models[seq.model].intervals

----------------------------------------------------------------------------
(* Bounds of the model.                                                    *)

MaxSeqs == 2

MaxCapo == 2

----------------------------------------------------------------------------
(* JavaScript primitives.                                                  *)

\* a % n of JavaScript: the sign of the result is the sign of a.
JsRem(a, n) == IF a >= 0 THEN a % n ELSE -((-a) % n)

\* notes.indexOf(note): 0-based, -1 when absent.
indexOf(note) ==
    IF \E i \in 1..Len(notes) : notes[i] = note
    THEN (CHOOSE i \in 1..Len(notes) : notes[i] = note) - 1
    ELSE -1

\* notes[k]
notesAt(k) == IF k \in 0..(Len(notes) - 1) THEN notes[k + 1] ELSE Undefined

----------------------------------------------------------------------------
(* getInterval, lines 125-130.                                             *)

\* getInterval without the wrap through the octave.
getIntervalNoWrap(note1, note2) == indexOf(note2) - indexOf(note1)

\* getInterval with index1 < index2 for index1 <= index2.
getIntervalStrict(note1, note2) ==
    LET index1 == indexOf(note1)
        index2 == indexOf(note2)
    IN  IF index1 < index2 THEN index2 - index1
                           ELSE Len(notes) - (index1 - index2)

getInterval(note1, note2) ==
    LET index1 == indexOf(note1)
        index2 == indexOf(note2)
    IN  IF index1 <= index2 THEN index2 - index1
                            ELSE Len(notes) - (index1 - index2)

----------------------------------------------------------------------------
(* isInPosition, lines 111-118, and shouldDisplayFret, lines 91-106.       *)

Bool(b) == IF b THEN "true" ELSE "false"

\* isInPosition with the wrapping window taken as an intersection.
isInPositionNoWrap(fretNumber, position, offset) ==
    LET start == position[1] + offset
        stop  == position[2] + offset
    IN  start <= fretNumber /\ fretNumber <= stop

isInPosition(fretNumber, position, offset) ==
    LET start == position[1] + offset
        stop  == position[2] + offset
    IN  IF start < stop
        THEN (start <= fretNumber /\ fretNumber <= stop)
        ELSE (start <= fretNumber \/ fretNumber <= stop)

\* shouldDisplayFret with guards for the missing customFretBounds and the
\* missing entry of the positions table.
shouldDisplayFretGuarded(fret, idx, seq, offsets) ==
    IF seq.position = -1
    THEN IF seq.customFretBounds = Missing
         THEN "true"
         ELSE Bool(fret >= Get(seq.customFretBounds)[1]
                   /\ fret <= Get(seq.customFretBounds)[2])
    ELSE IF seq.position = 0 THEN "true"
    ELSE IF ~models[seq.model].hasPositions THEN "true"
    ELSE IF (seq.position - 1) \notin 0..(Len(models[seq.model].positions) - 1)
         THEN "true"
         ELSE Bool(isInPosition(fret,
                                models[seq.model].positions[seq.position],
                                offsets[idx + 1]))

\* "true", "false", or "TypeError" when the code reads a property of undefined:
\* customFretBounds[0] of a missing customFretBounds (line 95), position[0]
\* of a missing entry of the positions table (line 112).
shouldDisplayFret(fret, idx, seq, offsets) ==
    IF seq.position = -1
    THEN IF seq.customFretBounds = Missing
         THEN "TypeError"
         ELSE Bool(fret >= Get(seq.customFretBounds)[1]
                   /\ fret <= Get(seq.customFretBounds)[2])
    ELSE IF seq.position = 0 THEN "true"
    ELSE IF ~models[seq.model].hasPositions THEN "true"
    ELSE IF (seq.position - 1) \notin 0..(Len(models[seq.model].positions) - 1)
         THEN "TypeError"
         ELSE Bool(isInPosition(fret,
                                models[seq.model].positions[seq.position],
                                offsets[idx + 1]))

----------------------------------------------------------------------------
(* getFrets, lines 9-81.                                                   *)

\* lines 15-16
lowestTuningNote ==
    IF flipped THEN tuningNotes[Len(tuningNotes)] ELSE tuningNotes[1]

\* lines 18-20
computeOffsets(seqs, lowest) ==
    [i \in 1..Len(seqs) |-> getInterval(lowest, seqs[i].tonality)]

\* lines 23-28: Array.prototype.sort is stable, and the comparator orders only
\* by isIntersected: the non-intersected sequences in input order, then the
\* intersected ones in input order.  sortOrder is the permutation (1-based
\* input positions), sortSequences the sorted copy.
IsPlain(seqs, i) == ~seqs[i].isIntersected

sortOrder(seqs) ==
    LET ids == [i \in 1..Len(seqs) |-> i]
        plain(i) == IsPlain(seqs, i)
        inter(i) == ~IsPlain(seqs, i)
    IN  SelectSeq(ids, plain) \o SelectSeq(ids, inter)

sortSequences(seqs) ==
    [k \in 1..Len(seqs) |-> seqs[sortOrder(seqs)[k]]]

\* lines 33-39
createFrets(openStringNote, strNo) ==
    [fretNumber \in 0..(NB_FRETS - 1) |->
        [string        |-> strNo,
         number        |-> fretNumber,
         note          |-> notesAt(JsRem(indexOf(openStringNote) + fretNumber,
                                        Len(notes))),
         sequences     |-> << >>,
         isHighlighted |-> FALSE]]

\* line 44: findIndex, -1 when no fret carries the note
findRootFret(fr, tonality) ==
    IF \E f \in DOMAIN fr : fr[f].note = tonality
    THEN CHOOSE f \in DOMAIN fr :
            /\ fr[f].note = tonality
            /\ \A g \in DOMAIN fr : fr[g].note = tonality => f <= g
    ELSE -1

\* lines 54-64, the body of the forEach for one fret of the pair.  st is
\* [threw, frets]; an exception keeps the following fret from being visited.
markFret(st, fret, idx, seq, interval, offsets) ==
    IF st.threw THEN st
    ELSE LET shown == shouldDisplayFret(fret, idx, seq, offsets)
         IN  IF shown = "TypeError" THEN [st EXCEPT !.threw = TRUE]
             ELSE IF shown = "false" THEN st
             ELSE IF fret \notin DOMAIN st.frets
                  THEN [st EXCEPT !.threw = TRUE]   \* frets[fret] is undefined
                  ELSE [st EXCEPT
                          !.frets[fret].sequences =
                              Append(@, [index |-> idx, interval |-> interval]),
                          !.frets[fret].isHighlighted =
                              IF interval = seq.highlightedInterval THEN TRUE ELSE @]

\* octavePair without the fret an octave away.
octavePairNoOctave(fretNumber) == <<fretNumber>>

\* line 54: the frets one call of applyInterval visits
octavePair(fretNumber) == <<fretNumber, JsRem(fretNumber + 12, NB_FRETS)>>

\* lines 54-64: the forEach over the frets of the pair, in order
RECURSIVE markFrets(_, _, _, _, _, _)
markFrets(st, pair, idx, seq, interval, offsets) ==
    IF pair = << >> THEN st
    ELSE markFrets(markFret(st, Head(pair), idx, seq, interval, offsets),
                   Tail(pair), idx, seq, interval, offsets)

\* lines 47-65
applyInterval(fr, idx, seq, interval, offsets) ==
    LET rootFret   == findRootFret(fr, seq.tonality)
        fretNumber == rootFret + interval
        st0        == [threw |-> FALSE, frets |-> fr]
    IN  IF seq.isIntersected /\ fretNumber \notin DOMAIN fr
        THEN [st0 EXCEPT !.threw = TRUE]            \* frets[fretNumber] is undefined
        ELSE IF seq.isIntersected /\ Len(fr[fretNumber].sequences) = 0
        THEN st0
        ELSE markFrets(st0, octavePair(fretNumber), idx, seq, interval, offsets)

\* line 73
extendFrets(fr) ==
    [k \in 1..MAX_NB_FRETS |->
        IF k <= NB_FRETS THEN fr[k - 1]
        ELSE [fr[k - 1 - NB_FRETS] EXCEPT !.number = @ + NB_FRETS]]

\* line 76: shiftSequencesDown is imported from modules/shift12.  It is a
\* function of the grid alone; the model admits the grid unchanged and the
\* tags and highlights of every fret moved down one octave on its string.
ShiftModes == {"keep", "octave"}

shiftSequencesDown(grid, mode) ==
    IF mode = "keep" THEN grid
    ELSE [k \in 1..Len(grid) |->
            IF \E j \in 1..Len(grid) : /\ grid[j].string = grid[k].string
                                       /\ grid[j].number = grid[k].number + 12
            THEN LET j == CHOOSE j \in 1..Len(grid) :
                              /\ grid[j].string = grid[k].string
                              /\ grid[j].number = grid[k].number + 12
                 IN  [grid[k] EXCEPT !.sequences = grid[j].sequences,
                                     !.isHighlighted = grid[j].isHighlighted]
            ELSE grid[k]]

\* filterCapo that also clears the fret under the capo.
filterCapoInclusive(grid, c) ==
    [k \in 1..Len(grid) |->
        [grid[k] EXCEPT !.sequences = IF grid[k].number <= c THEN << >> ELSE @]]

\* lines 83-88
filterCapo(grid, c) ==
    [k \in 1..Len(grid) |->
        [grid[k] EXCEPT !.sequences = IF grid[k].number < c THEN << >> ELSE @]]


----------------------------------------------------------------------------
(* The inputs.                                                             *)

Config(model, position, bounds, highlighted) ==
    [model |-> model, position |-> position, customFretBounds |-> bounds,
     highlightedInterval |-> highlighted]

Sequence(tonality, config, isIntersected) ==
    [tonality            |-> tonality,
     model               |-> config.model,
     position            |-> config.position,
     customFretBounds    |-> config.customFretBounds,
     highlightedInterval |-> config.highlightedInterval,
     isIntersected       |-> isIntersected]

\* Well-formed sequences: the whole scale, the two windows of the positions
\* table (the second wraps), custom bounds, and a model without a positions
\* table.
Configs ==
    { Config("major",  0, Some(<<0, 0>>), 0),
      Config("major",  1, Some(<<0, 0>>), 7),
      Config("major",  2, Some(<<0, 0>>), 0),
      Config("major", -1, Some(<<2, 5>>), 4),
      Config("triad",  1, Some(<<0, 0>>), 4) }

\* Ill-formed sequences: a position outside the positions table, and custom
\* bounds that are missing; with them the whole scale and a position of a
\* model that has no table, which shouldDisplayFret accepts.
BadConfigs ==
    { Config("major",  0, Missing, 0),
      Config("major",  3, Missing, 0),
      Config("major", -1, Missing, 0),
      Config("triad",  3, Missing, 0) }

\* The sequences of the calls with notes outside the chromatic set.
PlainConfigs ==
    { Config("major",  0, Some(<<0, 0>>), 0),
      Config("major", -1, Some(<<2, 5>>), 4) }

Tonalities == {"E", "G"}

\* "H" is no note of the chromatic set.
BadTonalities == {"E", "H"}

Tunings == { <<"E">>, <<"E", "A">> }

BadTunings == { <<"E">>, <<"H">>, <<"E", "H">> }

SequenceDomain(tonalities, configs) ==
    { Sequence(t, c, i) : t \in tonalities, c \in configs, i \in BOOLEAN }

ListsOf(D, n) == UNION { [1..k -> D] : k \in 0..n }

NoCall == [fn |-> "none"]

\* A call getFrets(sequences, tuningNotes, capo, flipped).  Nothing before
\* line 78 reads capo: the model draws it there.
InitGetFrets(seqDomain, tunings) ==
    /\ sequences \in ListsOf(seqDomain, MaxSeqs)
    /\ tuningNotes \in tunings
    /\ capo = 0
    /\ flipped \in BOOLEAN
    /\ pc = "start"
    /\ positionOffsets = << >>
    /\ sortedSequences = << >>
    /\ stringNumber = 0
    /\ frets = << >>
    /\ index = 0
    /\ intervalNo = 0
    /\ allFrets = << >>
    /\ result = << >>
    /\ call = NoCall

NoGetFrets ==
    /\ sequences = << >>
    /\ tuningNotes = << >>
    /\ capo = 0
    /\ flipped = FALSE
    /\ positionOffsets = << >>
    /\ sortedSequences = << >>
    /\ stringNumber = 0
    /\ frets = << >>
    /\ index = 0
    /\ intervalNo = 0
    /\ allFrets = << >>
    /\ result = << >>

\* A call getInterval(note1, note2).
InitGetInterval(noteDomain) ==
    /\ NoGetFrets
    /\ pc = "call"
    /\ \E a \in noteDomain, b \in noteDomain :
          call = [fn |-> "getInterval", note1 |-> a, note2 |-> b]

OffsetLists == { <<0, 3>>, <<5, 0>>, <<3, 11>> }

\* A call shouldDisplayFret(fret, index, seq, positionOffsets).
InitShouldDisplayFret(seqDomain) ==
    /\ NoGetFrets
    /\ pc = "call"
    /\ \E f \in 0..(NB_FRETS - 1), i \in 0..1, s \in seqDomain, o \in OffsetLists :
          call = [fn |-> "shouldDisplayFret", fret |-> f, index |-> i,
                  seq |-> s, positionOffsets |-> o]

AllNotes == { notes[i] : i \in 1..Len(notes) }

Init ==
    \/ InitGetFrets(SequenceDomain(Tonalities, Configs), Tunings)
    \/ InitGetInterval(AllNotes)
    \/ InitShouldDisplayFret(SequenceDomain({"E"}, Configs))

\* The same calls with notes outside the chromatic set.
InitInvalidNotes ==
    \/ InitGetFrets(SequenceDomain(BadTonalities, PlainConfigs), BadTunings)
    \/ InitGetInterval(AllNotes \cup {"H"})
    \/ InitShouldDisplayFret(SequenceDomain(BadTonalities, PlainConfigs))

\* The same calls with ill-formed sequences.
InitInvalidConfig ==
    \/ InitGetFrets(SequenceDomain(Tonalities, BadConfigs), Tunings)
    \/ InitGetInterval(AllNotes)
    \/ InitShouldDisplayFret(SequenceDomain({"E"}, BadConfigs))

----------------------------------------------------------------------------
(* The steps of getFrets.                                                  *)

\* lines 15-28
Start ==
    /\ pc = "start"
    /\ positionOffsets' = computeOffsets(sequences, lowestTuningNote)
    /\ sortedSequences' = sortSequences(sequences)
    /\ pc' = "string"
    /\ UNCHANGED <<sequences, tuningNotes, capo, flipped, stringNumber, frets,
                   index, intervalNo, allFrets, result, call>>

\* lines 31-39: the frets of string stringNumber
CreateFrets ==
    /\ pc = "string"
    /\ frets' = createFrets(tuningNotes[stringNumber + 1], stringNumber)
    /\ index' = 0
    /\ intervalNo' = 0
    /\ pc' = IF Len(sortedSequences) = 0 THEN "extend" ELSE "mark"
    /\ UNCHANGED <<sequences, tuningNotes, capo, flipped, positionOffsets,
                   sortedSequences, stringNumber, allFrets, result, call>>

\* The interval of the pending call of applyInterval (lines 68-69).
pendingInterval ==
    IF intervalNo = 0 THEN 0
    ELSE intervalsForSequence(sortedSequences[index + 1])[intervalNo]

\* lines 42-70: one call of applyInterval, and the loops' advance
ApplyInterval ==
    /\ pc = "mark"
    /\ LET seq == sortedSequences[index + 1]
           st  == applyInterval(frets, index, seq, pendingInterval, positionOffsets)
       IN  /\ frets' = st.frets
           /\ IF st.threw
              THEN /\ pc' = "threw"
                   /\ UNCHANGED <<index, intervalNo>>
              ELSE IF intervalNo < Len(intervalsForSequence(seq))
              THEN /\ intervalNo' = intervalNo + 1
                   /\ UNCHANGED <<pc, index>>
              ELSE IF index + 1 < Len(sortedSequences)
              THEN /\ index' = index + 1
                   /\ intervalNo' = 0
                   /\ UNCHANGED pc
              ELSE /\ pc' = "extend"
                   /\ UNCHANGED <<index, intervalNo>>
    /\ UNCHANGED <<sequences, tuningNotes, capo, flipped, positionOffsets,
                   sortedSequences, stringNumber, allFrets, result, call>>

\* line 73, and flatMap's concatenation and advance
ExtendFrets ==
    /\ pc = "extend"
    /\ allFrets' = allFrets \o extendFrets(frets)
    /\ IF stringNumber + 1 < Len(tuningNotes)
       THEN /\ stringNumber' = stringNumber + 1
            /\ pc' = "string"
       ELSE /\ pc' = "shift"
            /\ UNCHANGED stringNumber
    /\ UNCHANGED <<sequences, tuningNotes, capo, flipped, positionOffsets,
                   sortedSequences, frets, index, intervalNo, result, call>>

\* line 76
ShiftSequencesDown ==
    /\ pc = "shift"
    /\ \E mode \in ShiftModes : allFrets' = shiftSequencesDown(allFrets, mode)
    /\ pc' = "capo"
    /\ UNCHANGED <<sequences, tuningNotes, capo, flipped, positionOffsets,
                   sortedSequences, stringNumber, frets, index, intervalNo,
                   result, call>>

\* lines 78-80, for each capo of the call
FilterCapo ==
    /\ pc = "capo"
    /\ \E c \in 0..MaxCapo :
          /\ capo' = c
          /\ result' = filterCapo(allFrets, c)
    /\ pc' = "done"
    /\ UNCHANGED <<sequences, tuningNotes, flipped, positionOffsets,
                   sortedSequences, stringNumber, frets, index, intervalNo,
                   allFrets, call>>

\* getInterval, lines 125-130
GetInterval ==
    /\ pc = "call"
    /\ call.fn = "getInterval"
    /\ call' = [call EXCEPT !.fn = "getInterval returned"]
                  @@ [ret |-> getInterval(call.note1, call.note2)]
    /\ pc' = "returned"
    /\ UNCHANGED <<sequences, tuningNotes, capo, flipped, positionOffsets,
                   sortedSequences, stringNumber, frets, index, intervalNo,
                   allFrets, result>>

\* shouldDisplayFret, lines 91-106
ShouldDisplayFret ==
    /\ pc = "call"
    /\ call.fn = "shouldDisplayFret"
    /\ call' = [call EXCEPT !.fn = "shouldDisplayFret returned"]
                  @@ [ret |-> shouldDisplayFret(call.fret, call.index, call.seq,
                                                call.positionOffsets)]
    /\ pc' = "returned"
    /\ UNCHANGED <<sequences, tuningNotes, capo, flipped, positionOffsets,
                   sortedSequences, stringNumber, frets, index, intervalNo,
                   allFrets, result>>

Next ==
    \/ Start
    \/ CreateFrets
    \/ ApplyInterval
    \/ ExtendFrets
    \/ ShiftSequencesDown
    \/ FilterCapo
    \/ GetInterval
    \/ ShouldDisplayFret

Spec == Init /\ [][Next]_vars

SpecInvalidNotes == InitInvalidNotes /\ [][Next]_vars

SpecInvalidConfig == InitInvalidConfig /\ [][Next]_vars

----------------------------------------------------------------------------
(* Properties.                                                             *)

\* The tags of a fret, and the sequence that a tag's index names in the
\* processing order.
Tags(fret) == { fret.sequences[j] : j \in 1..Len(fret.sequences) }

Claimant(tag) == sortedSequences[tag.index + 1]

\* shouldDisplayFret is constantly true for seq.
NoWindow(seq) ==
    \/ seq.position = 0
    \/ seq.position # -1 /\ ~models[seq.model].hasPositions

\* seq is filtered by a window of its model's positions table.
HasWindow(seq) == seq.position > 0 /\ models[seq.model].hasPositions

\* A position outside the positions table, or custom bounds that are missing.
BadConfig(seq) ==
    \/ /\ seq.position > 0
       /\ models[seq.model].hasPositions
       /\ seq.position > Len(models[seq.model].positions)
    \/ seq.position = -1 /\ seq.customFretBounds = Missing

IsNote(n) == n \in AllNotes

\* C1: every tag appended by a call of applyInterval carries as index the
\* position, in the input list `sequences`, of the sequence being processed.
C1_TagIndexIsInputPosition ==
    [][pc = "mark" =>
         \A f \in DOMAIN frets :
            \A j \in (Len(frets[f].sequences) + 1)..Len(frets'[f].sequences) :
               frets'[f].sequences[j].index = sortOrder(sequences)[index + 1] - 1]_vars

\* C2: a tag of an intersected sequence is only ever appended to a fret that
\* already carries a tag of a non-intersected sequence: on every fret, each
\* tag of an intersected sequence is preceded by one of a non-intersected one.
C2_IntersectedOnlyOnPlainTagged ==
    \A f \in DOMAIN frets :
       \A j \in 1..Len(frets[f].sequences) :
          Claimant(frets[f].sequences[j]).isIntersected =>
             \E k \in 1..(j - 1) : ~Claimant(frets[f].sequences[k]).isIntersected

\* C3: the grid returned with capo = K equals the grid returned with capo = 0
\* in every field of every fret, except that the frets with number < K have
\* sequences = [].
C3_CapoOnlyClearsBelow ==
    pc = "done" =>
       LET grid0 == filterCapo(allFrets, 0)
       IN  /\ Len(result) = Len(grid0)
           /\ \A k \in 1..Len(result) :
                 /\ result[k].number < capo => result[k].sequences = << >>
                 /\ result[k] =
                       [grid0[k] EXCEPT
                          !.sequences = IF grid0[k].number < capo THEN << >> ELSE @]

C3_Witness ==
    /\ pc = "done"
    /\ capo > 0
    /\ \E k \in 1..Len(result) :
          /\ allFrets[k].number < capo
          /\ allFrets[k].sequences # << >>
          /\ result[k].isHighlighted
    /\ \E k \in 1..Len(result) :
          /\ result[k].number = capo
          /\ result[k].sequences # << >>

\* C4: for notes a, b of the chromatic set getInterval(a, b) is
\* (index(b) - index(a)) mod 12, in 0..11; it is 0 for a = b, and
\* getInterval(a, b) + getInterval(b, a) = 12 for a # b.
C4_GetIntervalIsModularDistance ==
    (call.fn = "getInterval returned" /\ IsNote(call.note1) /\ IsNote(call.note2)) =>
       /\ call.ret \in 0..11
       /\ call.ret = (indexOf(call.note2) - indexOf(call.note1)) % 12
       /\ call.note1 = call.note2 => call.ret = 0
       /\ call.note1 # call.note2 =>
             call.ret + getInterval(call.note2, call.note1) = 12

C4_Witness ==
    /\ call.fn = "getInterval returned"
    /\ call.note1 = "B"
    /\ call.note2 = "C"
    /\ call.ret = 1

\* C5: shouldDisplayFret compares the fret with customFretBounds for
\* position -1, is true for position 0 and for a model without a positions
\* table, and otherwise tests the window [low + offset, high + offset], closed
\* when start < stop and wrapping (fret >= start or fret <= stop) when
\* start >= stop; the window [10, 2] with offset 0 holds the frets 10, 11, 0,
\* 1, 2 and none of 3..9.
C5_ShouldDisplayFretCases ==
    call.fn = "shouldDisplayFret returned" =>
       LET seq    == call.seq
           fret   == call.fret
           offset == call.positionOffsets[call.index + 1]
           window == models[seq.model].positions[seq.position]
           start  == window[1] + offset
           stop   == window[2] + offset
       IN  /\ seq.position = -1 =>
                (call.ret = "true" <=>
                    /\ Get(seq.customFretBounds)[1] <= fret
                    /\ fret <= Get(seq.customFretBounds)[2])
           /\ seq.position = 0 => call.ret = "true"
           /\ (seq.position > 0 /\ ~models[seq.model].hasPositions) =>
                call.ret = "true"
           /\ (HasWindow(seq) /\ start < stop) =>
                (call.ret = "true" <=> (start <= fret /\ fret <= stop))
           /\ (HasWindow(seq) /\ start >= stop) =>
                (call.ret = "true" <=> (fret >= start \/ fret <= stop))
           /\ (HasWindow(seq) /\ window = <<10, 2>> /\ offset = 0) =>
                /\ fret \in {10, 11, 0, 1, 2} => call.ret = "true"
                /\ fret \in 3..9 => call.ret = "false"
           /\ call.ret \in {"true", "false"}

C5_Witness ==
    /\ call.fn = "shouldDisplayFret returned"
    /\ call.seq.model = "major"
    /\ call.seq.position = 2
    /\ call.positionOffsets[call.index + 1] = 0
    /\ call.fret = 1
    /\ call.ret = "true"

\* C6: on the frets of a string, a tag of a sequence without a position
\* window on a fret f < NB_FRETS - 12 is also on fret f + 12, with the same
\* index and interval, for non-intersected and for intersected sequences.
C6_OctaveDuplicate ==
    \A f \in DOMAIN frets :
       f < NB_FRETS - 12 =>
          \A tag \in Tags(frets[f]) :
             NoWindow(Claimant(tag)) => tag \in Tags(frets[f + 12])

C6_Witness ==
    /\ pc = "extend"
    /\ \E f \in 0..(NB_FRETS - 13) :
          \E tag \in Tags(frets[f]) :
             /\ Claimant(tag).isIntersected
             /\ NoWindow(Claimant(tag))
             /\ tag \in Tags(frets[f + 12])

\* C7 as stated: getInterval never returns a number for a note outside the
\* chromatic set, and getFrets returns no grid when a tuning note or a
\* tonality is outside the set.
C7_InvalidNoteRaises ==
    /\ call.fn = "getInterval returned" =>
          IsNote(call.note1) /\ IsNote(call.note2)
    /\ pc = "done" =>
          /\ \A i \in 1..Len(tuningNotes) : IsNote(tuningNotes[i])
          /\ \A i \in 1..Len(sequences) : IsNote(sequences[i].tonality)

\* C7, amended: getInterval tests no membership and always returns a number:
\* with indexOf = -1 for a note outside the set, index(note2) + 1 when only
\* note1 is outside, 11 - index(note1) when only note2 is, 0 when both are.
\* getFrets computes positionOffsets from these numbers; a tuning note outside
\* the set never aborts the call; with well-formed sequences the call throws
\* only for a tonality outside the set, where frets[-1] is undefined.
C7_GetIntervalNeverFails ==
    /\ call.fn = "getInterval returned" =>
          /\ call.ret \in 0..12
          /\ (IsNote(call.note1) /\ IsNote(call.note2)) =>
                call.ret = (indexOf(call.note2) - indexOf(call.note1)) % 12
          /\ (~IsNote(call.note1) /\ IsNote(call.note2)) =>
                call.ret = indexOf(call.note2) + 1
          /\ (IsNote(call.note1) /\ ~IsNote(call.note2)) =>
                call.ret = 11 - indexOf(call.note1)
          /\ (~IsNote(call.note1) /\ ~IsNote(call.note2)) => call.ret = 0
    /\ (call = NoCall /\ pc # "start") =>
          /\ Len(positionOffsets) = Len(sequences)
          /\ \A i \in 1..Len(sequences) : positionOffsets[i] \in 0..12
    /\ pc = "threw" =>
          \E i \in 1..Len(sequences) : ~IsNote(sequences[i].tonality)

C7_Witness ==
    /\ pc = "done"
    /\ ~IsNote(lowestTuningNote)
    /\ Len(sequences) > 0
    /\ \A i \in 1..Len(sequences) : positionOffsets[i] = 5

\* C8 as stated: no call with a sequence whose position is outside the
\* positions table of its model, or whose position is -1 without
\* customFretBounds, returns a grid.
C8_BadConfigNeverReturns ==
    pc = "done" => \A i \in 1..Len(sequences) : ~BadConfig(sequences[i])

\* C8, amended: no call with a non-intersected such sequence returns a grid;
\* an intersected one aborts the call only when shouldDisplayFret is evaluated
\* for it, that is on a fret that already carries a tag, so a returned grid
\* may hold such sequences, all intersected, and carries no tag of them.
C8_BadConfigThrowsWhenDisplayed ==
    pc = "done" =>
       /\ \A i \in 1..Len(sequences) :
             BadConfig(sequences[i]) => sequences[i].isIntersected
       /\ \A k \in 1..Len(result) :
             \A tag \in Tags(result[k]) : ~BadConfig(Claimant(tag))

C8_Witness ==
    /\ pc = "threw"
    /\ \E i \in 1..Len(sequences) :
          BadConfig(sequences[i]) /\ ~sequences[i].isIntersected

\* C9: in the returned grid no fret's sequences list holds two entries with
\* the same index and interval.
C9_NoDuplicateTags ==
    pc = "done" =>
       \A k \in 1..Len(result) :
          \A i, j \in 1..Len(result[k].sequences) :
             i # j => result[k].sequences[i] # result[k].sequences[j]

\* C10: the offset shouldDisplayFret uses for a sequence with a position
\* window is getInterval(lowestTuningNote, tonality) of that sequence.
C10_OffsetOfOwnSequence ==
    pc = "mark" =>
       LET seq == sortedSequences[index + 1]
       IN  HasWindow(seq) =>
              positionOffsets[index + 1] = getInterval(lowestTuningNote, seq.tonality)

====
